---- MODULE Spec2Model ----
(***************************************************************************)
(* Model of example/qlora.py: the QLoRA fine-tuning script.  The module    *)
(* has two specifications.  Spec follows finetune_model() from the model    *)
(* load to the final save, with every library call able to raise.  SpecFmt  *)
(* runs formatting_prompts_func, the callback handed to the trainer, on     *)
(* bounded inputs.  Texts are sequences of one-character strings, so that   *)
(* the f-string's result can be compared position by position.              *)
(***************************************************************************)
EXTENDS Integers, Sequences, FiniteSets, TLC

VARIABLES
    pc,            \* the statement finetune_model() is about to run
    hub,           \* what the hub serves for MODEL_ID: [pad, tp]
    replicas,      \* accelerator replicas the launcher started
    model,         \* the model object
    tokenizer,     \* the tokenizer object
    padWrites,     \* assignments made to tokenizer.pad_token
    dataset,       \* records held by `dataset` (0 before line 83)
    trainer,       \* the SFTTrainer object
    consumed,      \* records of the current epoch already batched
    accum,         \* micro-batches since the last optimizer update
    optSteps,      \* optimizer updates done by each replica
    epoch,         \* completed epochs
    disk,          \* files present in OUTPUT_DIR
    savedPad,      \* pad token stored in OUTPUT_DIR's tokenizer files
    writes,        \* writes this run made to OUTPUT_DIR, in order
    log,           \* statements completed by this run, in order
    failedAt,      \* the statement whose call raised ("none": nothing raised)
    fpc,           \* formatting_prompts_func: idle / loop / returned / raised
    example,       \* its argument
    i,             \* its loop index (0-based, as in the source)
    output_texts   \* its list of results

pipeVars == <<pc, hub, replicas, model, tokenizer, padWrites, dataset, trainer,
              consumed, accum, optSteps, epoch, disk, savedPad, writes, log,
              failedAt>>
fmtVars == <<fpc, example, i, output_texts>>
vars == <<pc, hub, replicas, model, tokenizer, padWrites, dataset, trainer,
          consumed, accum, optSteps, epoch, disk, savedPad, writes, log,
          failedAt, fpc, example, i, output_texts>>

(***************************************************************************)
(* Configuration (lines 12-53).                                            *)
(***************************************************************************)
\* training_arguments.num_train_epochs
num_train_epochs == 1
batch_size_doubled == 2 * 4
\* training_arguments.per_device_train_batch_size
per_device_train_batch_size == 4
\* training_arguments.gradient_accumulation_steps
gradient_accumulation_steps == 1
\* the split "train[:500]" of load_dataset
SLICE_SIZE == 500
\* the value line 67 stores in model.config.pretraining_tp
PRETRAINING_TP == 1
\* bnb_config.load_in_4bit
load_in_4bit == TRUE
\* training_arguments.save_strategy
save_strategy == "epoch"

\* Largest number of accelerator replicas the launcher may start.
MaxReplicas == 2
\* Largest number of rows in a batch handed to formatting_prompts_func.
MaxBatch == 2

\* Token names.  A tokenizer's eos token is always defined; its pad token
\* may be undefined (None).
None == "None"
EosToken == "</s>"
PadTokens == {None, "<pad>", EosToken}
\* pretraining_tp as published in a hub configuration.
HubTps == {1, 2}

\* What OUTPUT_DIR may hold when the script starts: nothing, or the files
\* of an earlier run (the directory is written flat and overwritten).
EarlierRun == {"checkpoint", "adapter", "tokenizer"}
InitialDisks == {{}, EarlierRun}

Min(a, b) == IF a < b THEN a ELSE b

NoModel == [loaded |-> FALSE, quantized |-> FALSE, use_cache |-> TRUE,
            pretraining_tp |-> 0, kbit_prepared |-> FALSE, peft |-> FALSE]
NoTokenizer == [loaded |-> FALSE, pad_token |-> None, eos_token |-> None]
NoTrainer == [built |-> FALSE, model |-> NoModel, train_dataset |-> 0]

(***************************************************************************)
(* finetune_model(), lines 56-109.  The script has no try/except: a call    *)
(* that raises ends the run there (Raise).                                  *)
(***************************************************************************)
Done(step) == log' = Append(log, step)

FmtIdle == UNCHANGED fmtVars

\* Lines 60-65: AutoModelForCausalLM.from_pretrained(MODEL_ID,
\* quantization_config=bnb_config, ...).
LoadModel ==
    /\ pc = "load_model"
    /\ model' = [loaded |-> TRUE, quantized |-> load_in_4bit, use_cache |-> TRUE,
                 pretraining_tp |-> hub.tp, kbit_prepared |-> FALSE,
                 peft |-> FALSE]
    /\ Done("from_pretrained")
    /\ pc' = "set_use_cache"
    /\ UNCHANGED <<hub, replicas, tokenizer, padWrites, dataset, trainer,
                   consumed, accum, optSteps, epoch, disk, savedPad, writes,
                   failedAt>>
    /\ FmtIdle

\* Line 66: model.config.use_cache = False.
SetUseCache ==
    /\ pc = "set_use_cache"
    /\ model' = [model EXCEPT !.use_cache = FALSE]
    /\ Done("use_cache")
    /\ pc' = "set_pretraining_tp"
    /\ UNCHANGED <<hub, replicas, tokenizer, padWrites, dataset, trainer,
                   consumed, accum, optSteps, epoch, disk, savedPad, writes,
                   failedAt>>
    /\ FmtIdle

\* Line 67: model.config.pretraining_tp = 1.
SetPretrainingTp ==
    /\ pc = "set_pretraining_tp"
    /\ model' = [model EXCEPT !.pretraining_tp = PRETRAINING_TP]
    /\ Done("pretraining_tp")
    /\ pc' = "prepare_kbit"
    /\ UNCHANGED <<hub, replicas, tokenizer, padWrites, dataset, trainer,
                   consumed, accum, optSteps, epoch, disk, savedPad, writes,
                   failedAt>>
    /\ FmtIdle

PrepareKbitSkipped ==
    /\ pc = "prepare_kbit"
    /\ pc' = "get_peft_model"
    /\ UNCHANGED <<hub, replicas, model, tokenizer, padWrites, dataset, trainer,
                   consumed, accum, optSteps, epoch, disk, savedPad, writes,
                   log, failedAt>>
    /\ FmtIdle

\* Line 70: model = prepare_model_for_kbit_training(model).
PrepareKbit ==
    /\ pc = "prepare_kbit"
    /\ model' = [model EXCEPT !.kbit_prepared = TRUE]
    /\ Done("prepare_kbit")
    /\ pc' = "get_peft_model"
    /\ UNCHANGED <<hub, replicas, tokenizer, padWrites, dataset, trainer,
                   consumed, accum, optSteps, epoch, disk, savedPad, writes,
                   failedAt>>
    /\ FmtIdle

\* Line 73: model = get_peft_model(model, peft_config).
GetPeftModel ==
    /\ pc = "get_peft_model"
    /\ model' = [model EXCEPT !.peft = TRUE]
    /\ Done("get_peft_model")
    /\ pc' = "load_tokenizer"
    /\ UNCHANGED <<hub, replicas, tokenizer, padWrites, dataset, trainer,
                   consumed, accum, optSteps, epoch, disk, savedPad, writes,
                   failedAt>>
    /\ FmtIdle

\* Line 78: tokenizer = AutoTokenizer.from_pretrained(MODEL_ID, ...).
LoadTokenizer ==
    /\ pc = "load_tokenizer"
    /\ tokenizer' = [loaded |-> TRUE, pad_token |-> hub.pad,
                     eos_token |-> EosToken]
    /\ Done("load_tokenizer")
    /\ pc' = "set_pad_token"
    /\ UNCHANGED <<hub, replicas, model, padWrites, dataset, trainer,
                   consumed, accum, optSteps, epoch, disk, savedPad, writes,
                   failedAt>>
    /\ FmtIdle

SetPadTokenIfMissing ==
    /\ pc = "set_pad_token"
    /\ IF tokenizer.pad_token = None
         THEN /\ tokenizer' = [tokenizer EXCEPT !.pad_token = tokenizer.eos_token]
              /\ padWrites' = padWrites + 1
         ELSE UNCHANGED <<tokenizer, padWrites>>
    /\ Done("set_pad_token")
    /\ pc' = "load_dataset"
    /\ UNCHANGED <<hub, replicas, model, dataset, trainer, consumed, accum,
                   optSteps, epoch, disk, savedPad, writes, failedAt>>
    /\ FmtIdle

SetPadTokenSkipped ==
    /\ pc = "set_pad_token"
    /\ Done("set_pad_token")
    /\ pc' = "load_dataset"
    /\ UNCHANGED <<hub, replicas, model, tokenizer, padWrites, dataset, trainer,
                   consumed, accum, optSteps, epoch, disk, savedPad, writes,
                   failedAt>>
    /\ FmtIdle

SetPadTokenAndSave ==
    /\ pc = "set_pad_token"
    /\ tokenizer' = [tokenizer EXCEPT !.pad_token = tokenizer.eos_token]
    /\ padWrites' = padWrites + 1
    /\ disk' = disk \cup {"tokenizer"}
    /\ savedPad' = tokenizer.eos_token
    /\ writes' = Append(writes, "tokenizer")
    /\ Done("set_pad_token")
    /\ pc' = "load_dataset"
    /\ UNCHANGED <<hub, replicas, model, dataset, trainer, consumed, accum,
                   optSteps, epoch, failedAt>>
    /\ FmtIdle

\* Line 79: tokenizer.pad_token = tokenizer.eos_token.
SetPadToken ==
    /\ pc = "set_pad_token"
    /\ tokenizer' = [tokenizer EXCEPT !.pad_token = tokenizer.eos_token]
    /\ padWrites' = padWrites + 1
    /\ Done("set_pad_token")
    /\ pc' = "load_dataset"
    /\ UNCHANGED <<hub, replicas, model, dataset, trainer, consumed, accum,
                   optSteps, epoch, disk, savedPad, writes, failedAt>>
    /\ FmtIdle

\* Line 83: dataset = load_dataset(DATASET_ID, split="train[:500]").
LoadDataset ==
    /\ pc = "load_dataset"
    /\ dataset' = SLICE_SIZE
    /\ Done("load_dataset")
    /\ pc' = "build_trainer"
    /\ UNCHANGED <<hub, replicas, model, tokenizer, padWrites, trainer,
                   consumed, accum, optSteps, epoch, disk, savedPad, writes,
                   failedAt>>
    /\ FmtIdle

\* Lines 95-101: trainer = SFTTrainer(model=model, train_dataset=dataset, ...).
BuildTrainer ==
    /\ pc = "build_trainer"
    /\ trainer' = [built |-> TRUE, model |-> model, train_dataset |-> dataset]
    /\ Done("build_trainer")
    /\ pc' = "train"
    /\ UNCHANGED <<hub, replicas, model, tokenizer, padWrites, dataset,
                   consumed, accum, optSteps, epoch, disk, savedPad, writes,
                   failedAt>>
    /\ FmtIdle

(***************************************************************************)
(* Line 104: trainer.train().  The loop itself is the trainer's; it is      *)
(* modelled from the description of the training orchestration: each step   *)
(* every replica takes a batch of per_device_train_batch_size records of    *)
(* the current pass, an optimizer update follows every                       *)
(* gradient_accumulation_steps batches (and the last batch of a pass), and  *)
(* a checkpoint is written at the end of each pass.                         *)
(***************************************************************************)
TrainCall ==
    /\ pc = "train"
    /\ Done("train_called")
    /\ pc' = "training"
    /\ consumed' = 0
    /\ accum' = 0
    /\ optSteps' = 0
    /\ epoch' = 0
    /\ UNCHANGED <<hub, replicas, model, tokenizer, padWrites, dataset, trainer,
                   disk, savedPad, writes, failedAt>>
    /\ FmtIdle

\* Records one step takes off the current pass, all replicas together.
StepRecords == per_device_train_batch_size * replicas

TrainStep ==
    /\ pc = "training"
    /\ epoch < num_train_epochs
    /\ consumed < trainer.train_dataset
    /\ consumed' = Min(trainer.train_dataset, consumed + StepRecords)
    /\ IF accum + 1 = gradient_accumulation_steps
          \/ consumed' = trainer.train_dataset
         THEN optSteps' = optSteps + 1 /\ accum' = 0
         ELSE optSteps' = optSteps /\ accum' = accum + 1
    /\ UNCHANGED <<pc, hub, replicas, model, tokenizer, padWrites, dataset,
                   trainer, epoch, disk, savedPad, writes, log, failedAt>>
    /\ FmtIdle

EpochEnd ==
    /\ pc = "training"
    /\ epoch < num_train_epochs
    /\ consumed = trainer.train_dataset
    /\ epoch' = epoch + 1
    /\ consumed' = 0
    /\ IF save_strategy = "epoch"
         THEN disk' = disk \cup {"checkpoint"} /\ writes' = Append(writes, "checkpoint")
         ELSE UNCHANGED <<disk, writes>>
    /\ UNCHANGED <<pc, hub, replicas, model, tokenizer, padWrites, dataset,
                   trainer, accum, optSteps, savedPad, log, failedAt>>
    /\ FmtIdle

TrainReturnAndExit ==
    /\ pc = "training"
    /\ epoch = num_train_epochs
    /\ Done("train_returned")
    /\ pc' = "done"
    /\ UNCHANGED <<hub, replicas, model, tokenizer, padWrites, dataset, trainer,
                   consumed, accum, optSteps, epoch, disk, savedPad, writes,
                   failedAt>>
    /\ FmtIdle

\* Line 104 returns: the configured number of passes is complete.
TrainReturn ==
    /\ pc = "training"
    /\ epoch = num_train_epochs
    /\ Done("train_returned")
    /\ pc' = "save_adapter"
    /\ UNCHANGED <<hub, replicas, model, tokenizer, padWrites, dataset, trainer,
                   consumed, accum, optSteps, epoch, disk, savedPad, writes,
                   failedAt>>
    /\ FmtIdle

\* Line 107: trainer.model.save_pretrained(OUTPUT_DIR).
SaveAdapter ==
    /\ pc = "save_adapter"
    /\ disk' = disk \cup {"adapter"}
    /\ writes' = Append(writes, "adapter")
    /\ Done("save_adapter")
    /\ pc' = "save_tokenizer"
    /\ UNCHANGED <<hub, replicas, model, tokenizer, padWrites, dataset, trainer,
                   consumed, accum, optSteps, epoch, savedPad, failedAt>>
    /\ FmtIdle

\* Lines 108-109: tokenizer.save_pretrained(OUTPUT_DIR), the closing print,
\* and the return to line 112.
SaveTokenizer ==
    /\ pc = "save_tokenizer"
    /\ disk' = disk \cup {"tokenizer"}
    /\ savedPad' = tokenizer.pad_token
    /\ writes' = Append(writes, "tokenizer")
    /\ Done("save_tokenizer")
    /\ pc' = "done"
    /\ UNCHANGED <<hub, replicas, model, tokenizer, padWrites, dataset, trainer,
                   consumed, accum, optSteps, epoch, failedAt>>
    /\ FmtIdle

\* The statements that call into a library, each of which may raise.
Calls == {"load_model", "prepare_kbit", "get_peft_model", "load_tokenizer",
          "load_dataset", "build_trainer", "training", "save_adapter",
          "save_tokenizer"}

RaiseWithCleanup ==
    /\ pc \in Calls
    /\ failedAt' = pc
    /\ pc' = "aborted"
    /\ disk' = {}
    /\ UNCHANGED <<hub, replicas, model, tokenizer, padWrites, dataset, trainer,
                   consumed, accum, optSteps, epoch, savedPad, writes, log>>
    /\ FmtIdle

\* A call raises.  Nothing in lines 56-112 catches it: the exception leaves
\* finetune_model() and ends the process.
Raise ==
    /\ pc \in Calls
    /\ failedAt' = pc
    /\ pc' = "aborted"
    /\ UNCHANGED <<hub, replicas, model, tokenizer, padWrites, dataset, trainer,
                   consumed, accum, optSteps, epoch, disk, savedPad, writes,
                   log>>
    /\ FmtIdle

InitPipeline(h, r, d) ==
    /\ pc = "load_model"
    /\ hub = h
    /\ replicas = r
    /\ model = NoModel
    /\ tokenizer = NoTokenizer
    /\ padWrites = 0
    /\ dataset = 0
    /\ trainer = NoTrainer
    /\ consumed = 0
    /\ accum = 0
    /\ optSteps = 0
    /\ epoch = 0
    /\ disk = d
    /\ savedPad = IF "tokenizer" \in d THEN EosToken ELSE None
    /\ writes = <<>>
    /\ log = <<>>
    /\ failedAt = "none"

InitFmt ==
    /\ fpc = "idle"
    /\ example = [shape |-> "batch", instruction |-> <<>>, input |-> <<>>,
                  output |-> <<>>]
    /\ i = 0
    /\ output_texts = <<>>

Init ==
    /\ \E h \in [pad : PadTokens, tp : HubTps], r \in 1..MaxReplicas,
          d \in InitialDisks : InitPipeline(h, r, d)
    /\ InitFmt

Next ==
    \/ LoadModel
    \/ SetUseCache
    \/ SetPretrainingTp
    \/ PrepareKbit
    \/ GetPeftModel
    \/ LoadTokenizer
    \/ SetPadToken
    \/ LoadDataset
    \/ BuildTrainer
    \/ TrainCall
    \/ TrainStep
    \/ EpochEnd
    \/ TrainReturn
    \/ SaveAdapter
    \/ SaveTokenizer
    \/ Raise

Spec == Init /\ [][Next]_vars

(***************************************************************************)
(* formatting_prompts_func(example), lines 86-92.  The function is handed   *)
(* to the trainer (line 100), which calls it; `example` is what the trainer *)
(* passes: a batch in columnar form (each field a list of texts), or a      *)
(* single row (each field one text).  Python indexes both the same way:     *)
(* an element of a list of texts is a text, an element of a text is the     *)
(* one-character text at that place, and an index past the end raises       *)
(* IndexError.                                                              *)
(***************************************************************************)
\* The literal parts of the f-string of line 90.
PromptHead ==
    <<"B","e","l","o","w"," ","i","s"," ","a","n"," ","i","n","s","t","r","u","c","t","i","o",
     "n"," ","t","h","a","t"," ","d","e","s","c","r","i","b","e","s"," ","a"," ","t","a","s",
     "k",","," ","p","a","i","r","e","d"," ","w","i","t","h"," ","a","n"," ","i","n","p","u",
     "t"," ","t","h","a","t"," ","p","r","o","v","i","d","e","s"," ","f","u","r","t","h","e",
     "r"," ","c","o","n","t","e","x","t","."," ","W","r","i","t","e"," ","a"," ","r","e","s",
     "p","o","n","s","e"," ","t","h","a","t"," ","a","p","p","r","o","p","r","i","a","t","e",
     "l","y"," ","c","o","m","p","l","e","t","e","s"," ","t","h","e"," ","r","e","q","u","e",
     "s","t",".","\n","\n","#","#","#"," ","I","n","s","t","r","u","c","t","i","o","n",":",
     "\n">>
PromptInput == <<"\n","\n","#","#","#"," ","I","n","p","u","t",":","\n">>
PromptResponse == <<"\n","\n","#","#","#"," ","R","e","s","p","o","n","s","e",":","\n">>

\* Field texts the inputs are drawn from.
T_SayHi == <<"S","a","y"," ","h","i">>
T_HiThere == <<"H","i"," ","t","h","e","r","e">>
T_ab == <<"a","b">>
T_cd == <<"c","d">>
T_ef == <<"e","f">>
T_Marker == <<"\n","\n","#","#","#"," ","R","e","s","p","o","n","s","e",":","\n">>
InstructionTexts == {T_SayHi, T_ab, T_Marker}
InputTexts == {<<>>, T_cd}
OutputTexts == {T_HiThere, T_ef}
Rows == [instruction : InstructionTexts, input : InputTexts, output : OutputTexts]

\* The batch whose rows are rs, column by column.
Columns(rs) ==
    [shape |-> "batch",
     instruction |-> [k \in 1..Len(rs) |-> rs[k].instruction],
     input |-> [k \in 1..Len(rs) |-> rs[k].input],
     output |-> [k \in 1..Len(rs) |-> rs[k].output]]
SingleRow(r) ==
    [shape |-> "row", instruction |-> r.instruction, input |-> r.input,
     output |-> r.output]
Examples ==
    {Columns(rs) : rs \in UNION {[1..n -> Rows] : n \in 0..MaxBatch}}
        \cup {SingleRow(r) : r \in Rows}

\* example[field][k] for a 0-based k within the field.
Elem(e, field, k) == IF e.shape = "batch" THEN field[k + 1] ELSE <<field[k + 1]>>

TextDroppingEmptyInput(e, k) ==
    IF Elem(e, e.input, k) = <<>>
      THEN PromptHead \o Elem(e, e.instruction, k) \o PromptResponse
               \o Elem(e, e.output, k)
      ELSE PromptHead \o Elem(e, e.instruction, k) \o PromptInput
               \o Elem(e, e.input, k) \o PromptResponse \o Elem(e, e.output, k)

TextFieldsSwapped(e, k) ==
    PromptHead \o Elem(e, e.instruction, k) \o PromptInput
        \o Elem(e, e.output, k) \o PromptResponse \o Elem(e, e.input, k)

\* Line 90: the f-string, its three fields interpolated between the literals.
Text(e, k) ==
    PromptHead \o Elem(e, e.instruction, k) \o PromptInput
        \o Elem(e, e.input, k) \o PromptResponse \o Elem(e, e.output, k)

LoopBoundShort(e) == IF Len(e.instruction) = 0 THEN 0 ELSE Len(e.instruction) - 1

\* Line 88: range(len(example['instruction'])).
LoopBound(e) == Len(e.instruction)

PipeIdle == UNCHANGED pipeVars

\* Lines 86-87: the call, with output_texts = [].
FmtCall ==
    /\ fpc \in {"idle", "returned", "raised"}
    /\ \E e \in Examples : example' = e
    /\ output_texts' = <<>>
    /\ i' = 0
    /\ fpc' = "loop"
    /\ PipeIdle

\* Lines 88-91: one pass through the loop body.
FmtIter ==
    /\ fpc = "loop"
    /\ i < LoopBound(example)
    /\ IF i < Len(example.input) /\ i < Len(example.output)
         THEN /\ output_texts' = Append(output_texts, Text(example, i))
              /\ i' = i + 1
              /\ fpc' = fpc
         ELSE /\ fpc' = "raised"
              /\ UNCHANGED <<i, output_texts>>
    /\ UNCHANGED example
    /\ PipeIdle

\* Line 92: return output_texts.
FmtReturn ==
    /\ fpc = "loop"
    /\ ~(i < LoopBound(example))
    /\ fpc' = "returned"
    /\ UNCHANGED <<example, i, output_texts>>
    /\ PipeIdle

InitFmtOnly ==
    /\ InitPipeline([pad |-> None, tp |-> 1], 1, {})
    /\ InitFmt

NextFmt ==
    \/ FmtCall
    \/ FmtIter
    \/ FmtReturn

SpecFmt == InitFmtOnly /\ [][NextFmt]_vars

\* The prompt template as the interface description gives it, in its three
\* literal parts.
TemplateHead ==
    <<"B","e","l","o","w"," ","i","s"," ","a","n"," ","i","n","s","t","r","u","c","t","i","o",
     "n"," ","t","h","a","t"," ","d","e","s","c","r","i","b","e","s"," ","a"," ","t","a","s",
     "k",","," ","p","a","i","r","e","d"," ","w","i","t","h"," ","a","n"," ","i","n","p","u",
     "t"," ","t","h","a","t"," ","p","r","o","v","i","d","e","s"," ","f","u","r","t","h","e",
     "r"," ","c","o","n","t","e","x","t","."," ","W","r","i","t","e"," ","a"," ","r","e","s",
     "p","o","n","s","e"," ","t","h","a","t"," ","a","p","p","r","o","p","r","i","a","t","e",
     "l","y"," ","c","o","m","p","l","e","t","e","s"," ","t","h","e"," ","r","e","q","u","e",
     "s","t",".","\n","\n","#","#","#"," ","I","n","s","t","r","u","c","t","i","o","n",":",
     "\n">>
TemplateInput == <<"\n","\n","#","#","#"," ","I","n","p","u","t",":","\n">>
TemplateResponse == <<"\n","\n","#","#","#"," ","R","e","s","p","o","n","s","e",":","\n">>
Template(instruction, input, output) ==
    TemplateHead \o instruction \o TemplateInput \o input \o TemplateResponse
        \o output

(***************************************************************************)
(* Properties of finetune_model(), checked under Spec.                      *)
(***************************************************************************)
\* Place of a statement in the log of completed statements (0: not there).
Pos(step) ==
    IF \E k \in 1..Len(log) : log[k] = step
      THEN CHOOSE k \in 1..Len(log) : log[k] = step
      ELSE 0
Count(step) == Cardinality({k \in 1..Len(log) : log[k] = step})
Completed(step) == Pos(step) > 0
\* b completed only after a had.
Before(a, b) == Completed(b) => (Completed(a) /\ Pos(a) < Pos(b))
Wrote(file) == \E k \in 1..Len(writes) : writes[k] = file

\* The statements of a run that raises nothing, in the order of the source.
FullOrder == <<"from_pretrained", "use_cache", "pretraining_tp", "prepare_kbit",
               "get_peft_model", "load_tokenizer", "set_pad_token",
               "load_dataset", "build_trainer", "train_called",
               "train_returned", "save_adapter", "save_tokenizer">>
\* How many of them precede the call made at a given statement.
CompletedBefore(call) ==
    CASE call = "load_model" -> 0
      [] call = "prepare_kbit" -> 3
      [] call = "get_peft_model" -> 4
      [] call = "load_tokenizer" -> 5
      [] call = "load_dataset" -> 7
      [] call = "build_trainer" -> 8
      [] call = "training" -> 10
      [] call = "save_adapter" -> 11
      [] call = "save_tokenizer" -> 12

AcquiredModel == [loaded |-> TRUE, quantized |-> TRUE, use_cache |-> FALSE,
                  pretraining_tp |-> 1, kbit_prepared |-> TRUE, peft |-> TRUE]

\* C1: model acquisition runs (a) the quantized load, (b) use_cache = False
\* and pretraining_tp = 1, (c) k-bit preparation, (d) adapter injection, in
\* that order and each at most once; the model the trainer is built with has
\* been through all four.
C1_AcquisitionOrder ==
    /\ \A s \in {"from_pretrained", "use_cache", "pretraining_tp",
                 "prepare_kbit", "get_peft_model"} : Count(s) <= 1
    /\ Before("from_pretrained", "use_cache")
    /\ Before("from_pretrained", "pretraining_tp")
    /\ Before("use_cache", "prepare_kbit")
    /\ Before("pretraining_tp", "prepare_kbit")
    /\ Before("prepare_kbit", "get_peft_model")
    /\ model.kbit_prepared =>
          model.quantized /\ ~model.use_cache /\ model.pretraining_tp = 1
    /\ model.peft => model.kbit_prepared
    /\ trainer.built => trainer.model = AcquiredModel
C1_Witness ==
    /\ trainer.built
    /\ hub.tp = 2
    /\ trainer.model = AcquiredModel

\* C2: training starts only after the model, the tokenizer and the dataset
\* have all been acquired without error; the adapter and the tokenizer are
\* written only after trainer.train() has returned; a run that ends normally
\* has written both.
C2_TrainAfterAcquisitionSaveAfterTrain ==
    /\ Before("get_peft_model", "train_called")
    /\ Before("set_pad_token", "train_called")
    /\ Before("load_dataset", "train_called")
    /\ Completed("train_called") =>
          /\ model = AcquiredModel
          /\ tokenizer.loaded
          /\ dataset = SLICE_SIZE
          /\ failedAt \notin {"load_model", "prepare_kbit", "get_peft_model",
                              "load_tokenizer", "load_dataset"}
    /\ (Wrote("adapter") \/ Wrote("tokenizer")) =>
          Completed("train_returned") /\ failedAt # "training"
    /\ Before("train_returned", "save_adapter")
    /\ Before("train_returned", "save_tokenizer")
    /\ pc = "done" =>
          /\ Wrote("adapter") /\ Wrote("tokenizer")
          /\ {"adapter", "tokenizer"} \subseteq disk
          /\ failedAt = "none"
C2_Witness ==
    /\ pc = "done"
    /\ Wrote("adapter")
    /\ Wrote("tokenizer")
    /\ Completed("train_returned")

\* C3: a call that raises ends the run: the statements completed are exactly
\* those before the failed call (none retried, none after it), no adapter or
\* tokenizer save follows a failed load, fetch or training step, and neither
\* the failure nor anything after it removes a file from OUTPUT_DIR.
C3_FailureIsTerminal ==
    /\ [](failedAt # "none" =>
            /\ pc = "aborted"
            /\ log = SubSeq(FullOrder, 1, CompletedBefore(failedAt))
            /\ failedAt \in {"load_model", "prepare_kbit", "get_peft_model",
                             "load_tokenizer", "load_dataset", "build_trainer",
                             "training"}
                  => ~Wrote("adapter") /\ ~Wrote("tokenizer"))
    /\ [][pc' = "aborted" =>
            disk' = disk /\ writes' = writes /\ log' = log /\ savedPad' = savedPad]_vars
C3_Witness ==
    /\ pc = "aborted"
    /\ failedAt = "training"
    /\ "checkpoint" \in disk
    /\ Wrote("checkpoint")

\* C4: when the dataset cannot be fetched, this run has written nothing to
\* OUTPUT_DIR before the failure and writes nothing after it, although the
\* model and the tokenizer may already be acquired.
C4_DatasetFailureLeavesNoOutput ==
    /\ ~Completed("load_dataset") => writes = <<>> /\ disk \in InitialDisks
    /\ failedAt = "load_dataset" => pc = "aborted" /\ writes = <<>>
C4_Witness ==
    /\ failedAt = "load_dataset"
    /\ model = AcquiredModel
    /\ tokenizer.loaded
    /\ disk = {}

\* C5: for a tokenizer shipped without a pad token, once line 79 has run the
\* pad token is the eos token for the rest of the run; it is assigned once,
\* and it is the pad token the final tokenizer save stores.
C5_PadIsEosWhenNoneShipped ==
    hub.pad = None =>
        /\ padWrites <= 1
        /\ Completed("set_pad_token") =>
              /\ tokenizer.pad_token = tokenizer.eos_token
              /\ tokenizer.pad_token = EosToken
              /\ padWrites = 1
        /\ Completed("save_tokenizer") => savedPad = EosToken
C5_Witness ==
    /\ hub.pad = None
    /\ pc = "done"
    /\ savedPad = EosToken

\* C6 as stated: a tokenizer shipped with a pad token other than its eos
\* token still has that pad token after tokenizer acquisition.
C6_ShippedPadKept ==
    (Completed("set_pad_token") /\ hub.pad \notin {None, EosToken}) =>
        tokenizer.pad_token = hub.pad
\* C6 amended: line 79 assigns unconditionally; a tokenizer shipped with a
\* pad token other than its eos token has the eos token as pad token after
\* tokenizer acquisition, by one assignment.
C6_ShippedPadOverwritten ==
    (Completed("set_pad_token") /\ hub.pad \notin {None, EosToken}) =>
        /\ tokenizer.pad_token = tokenizer.eos_token
        /\ tokenizer.pad_token # hub.pad
        /\ padWrites = 1
C6_Witness ==
    /\ Completed("set_pad_token")
    /\ hub.pad = "<pad>"
    /\ tokenizer.pad_token = EosToken

ReturnedBatch == fpc = "returned" /\ example.shape = "batch"
\* Row k (1-based) of a columnar batch.
Row(e, k) == [instruction |-> e.instruction[k], input |-> e.input[k],
              output |-> e.output[k]]
\* Whether text s holds part at places from+1 .. from+Len(part).
HasAt(s, from, part) ==
    /\ from >= 0
    /\ from + Len(part) <= Len(s)
    /\ SubSeq(s, from + 1, from + Len(part)) = part
ResponseMarker == <<"#","#","#"," ","R","e","s","p","o","n","s","e",":","\n">>

\* C7: the string produced for a record (a row of the batch) is the prompt
\* template with the record's instruction, input and output substituted and
\* nothing added or removed; with an empty input the segment
\* "\n\n### Input:\n" is still there, directly followed by
\* "\n\n### Response:\n", as for {"Say hi", "", "Hi there"}.
C7_TemplateExact ==
    ReturnedBatch =>
        \A k \in 1..Len(output_texts) :
            LET r == Row(example, k)
                s == output_texts[k]
            IN  /\ s = Template(r.instruction, r.input, r.output)
                /\ Len(s) = Len(TemplateHead) + Len(TemplateInput)
                              + Len(TemplateResponse) + Len(r.instruction)
                              + Len(r.input) + Len(r.output)
                /\ r.input = <<>> =>
                      HasAt(s, Len(TemplateHead) + Len(r.instruction),
                            TemplateInput \o TemplateResponse)
C7_Witness ==
    /\ ReturnedBatch
    /\ Len(output_texts) >= 1
    /\ Row(example, 1) = [instruction |-> T_SayHi, input |-> <<>>,
                          output |-> T_HiThere]
    /\ output_texts[1] = TemplateHead \o T_SayHi \o TemplateInput
                             \o TemplateResponse \o T_HiThere

\* C8: the string of a record depends on that record alone: equal rows of a
\* batch give equal strings, and two rows that differ only in output give
\* strings that agree up to and including the "### Response:\n" the template
\* puts before the output, and whose remainders are the two outputs.
C8_OutputOnlyChangesTail ==
    ReturnedBatch =>
        \A j, k \in 1..Len(output_texts) :
            LET rj == Row(example, j)
                rk == Row(example, k)
                sj == output_texts[j]
                sk == output_texts[k]
                p == Len(sj) - Len(rj.output)
            IN  /\ rj = rk => sj = sk
                /\ (rj.instruction = rk.instruction /\ rj.input = rk.input) =>
                      /\ p = Len(sk) - Len(rk.output)
                      /\ SubSeq(sj, 1, p) = SubSeq(sk, 1, p)
                      /\ HasAt(sj, p - Len(ResponseMarker), ResponseMarker)
                      /\ SubSeq(sj, p + 1, Len(sj)) = rj.output
                      /\ SubSeq(sk, p + 1, Len(sk)) = rk.output
C8_Witness ==
    /\ ReturnedBatch
    /\ Len(output_texts) = 2
    /\ example.instruction[1] = example.instruction[2]
    /\ example.input[1] = example.input[2]
    /\ example.output[1] # example.output[2]
    /\ output_texts[1] # output_texts[2]

\* The records an argument holds: the rows of a batch, or the one row.
Held(e) ==
    IF e.shape = "batch"
      THEN [k \in 1..Len(e.instruction) |-> Row(e, k)]
      ELSE <<[instruction |-> e.instruction, input |-> e.input,
              output |-> e.output]>>
FromRecords(e) ==
    /\ Len(output_texts) = Len(Held(e))
    /\ \A k \in 1..Len(Held(e)) :
          output_texts[k] = Template(Held(e)[k].instruction, Held(e)[k].input,
                                     Held(e)[k].output)

\* C9 as stated: for an argument holding n records, a single record with its
\* three text fields included, the call yields n strings, the k-th built from
\* the k-th record.
C9_OneStringPerRecord ==
    /\ fpc # "raised"
    /\ fpc = "returned" => FromRecords(example)
\* C9 amended: for a batch in columnar form (each field a list of n texts,
\* n >= 0, a batch of one row included) the call yields n strings, the k-th
\* built from the k-th row, in order.  A single row passed bare (each field
\* one text) is not treated as one record: the loop runs over the characters
\* of its instruction and either raises IndexError or returns one string per
\* character.
C9_OneStringPerBatchRow ==
    /\ example.shape = "batch" =>
          /\ fpc # "raised"
          /\ fpc = "returned" => FromRecords(example)
          /\ fpc = "loop" =>
                /\ Len(output_texts) = i
                /\ i <= Len(example.instruction)
    /\ example.shape = "row" =>
          /\ fpc = "returned" => Len(output_texts) = Len(example.instruction)
          /\ fpc = "raised" =>
                \/ Len(example.input) < Len(example.instruction)
                \/ Len(example.output) < Len(example.instruction)
C9_Witness ==
    /\ ReturnedBatch
    /\ Len(example.instruction) = 2
    /\ Len(output_texts) = 2
    /\ example.output[1] # example.output[2]
====
